---- MODULE Spec2Model ----
(***************************************************************************)
(* A model of bf-alloc.c, the best-fit heap allocator.                     *)
(*                                                                         *)
(* The heap is modelled in-band, byte by byte: the headers live in the    *)
(* same memory as the payloads, exactly where the code puts them, so that *)
(* a payload or a header written over another header changes what the     *)
(* code later reads there.  The machine is scaled down: a byte holds       *)
(* ByteBits bits, a word (pointer, size_t, intptr_t) is WORD_BYTES bytes,  *)
(* and the heap region is HEAP_SIZE bytes.  Arithmetic on words wraps at   *)
(* the word width, as size_t arithmetic does.                              *)
(***************************************************************************)
EXTENDS Integers, FiniteSets, Sequences, TLC

-----------------------------------------------------------------------------
(* The machine *)

\* Bits in a byte of the scaled machine.
ByteBits == 2

\* sizeof(void*) = sizeof(size_t) = sizeof(intptr_t) on LP64.
WORD_BYTES == 8

RECURSIVE Pow(_, _)
Pow(b, e) == IF e = 0 THEN 1 ELSE b * Pow(b, e - 1)

Radix == Pow(2, ByteBits)

\* Number of values of a word: size_t arithmetic is modulo WordMod.
WordMod == Pow(Radix, WORD_BYTES)

\* The value of a word read as intptr_t (two's complement).
Signed(w) == IF w >= WordMod \div 2 THEN w - WordMod ELSE w

\* A mathematical integer reduced to a word.
Wrap(x) == x % WordMod

NULL == 0

\* struct header: next at 0, prev at 8, size at 16, allocated at 24,
\* padded to 32 bytes.
OFF_NEXT == 0
OFF_PREV == 8
OFF_SIZE == 16
OFF_ALLOCATED == 24
HEADER_SIZE == 32

\* The alignment of payloads.
ALIGN == 16

\* The size of the region init() maps (GB(2) in the source, scaled).
HEAP_SIZE == 160

\* The address mmap() returns: page aligned, hence 16-byte aligned.
HeapBase == 64

\* Memory next to the region, below and above it.  Whether it is mapped
\* (readable and writable) is not up to the program: foreign_rw.
SlackLo == 32
SlackHi == 48

ArenaLo == HeapBase - SlackLo
ArenaHi == HeapBase + HEAP_SIZE + SlackHi
Arena == ArenaLo .. (ArenaHi - 1)

HEADER_TO_BLOCK(hp) == Wrap(hp + HEADER_SIZE)
BLOCK_TO_HEADER(bp) == Wrap(bp - HEADER_SIZE)

-----------------------------------------------------------------------------
(* Memory *)

\* The byte at address x; an address outside the modelled memory is never
\* read by a running process (Touch), and reads as 0 here.
ByteAt(mem, x) == IF x >= ArenaLo /\ x < ArenaHi THEN mem[x] ELSE 0

\* The word stored at address a (little endian).
RECURSIVE LoadFrom(_, _, _)
LoadFrom(mem, a, i) ==
    IF i = WORD_BYTES THEN 0
    ELSE ByteAt(mem, a + i) + Radix * LoadFrom(mem, a, i + 1)

LoadWord(mem, a) == LoadFrom(mem, a, 0)

\* The bytes of v, lowest first, stored from address a + i on.
RECURSIVE StoreFrom(_, _, _, _)
StoreFrom(mem, a, v, i) ==
    IF i = WORD_BYTES THEN mem
    ELSE StoreFrom([mem EXCEPT ![a + i] = v % Radix], a, v \div Radix, i + 1)

StoreWord(mem, a, v) == StoreFrom(mem, a, v, 0)

StoreByte(mem, a, b) == [mem EXCEPT ![a] = b]

\* memset(a, b, n)
FillBytes(mem, a, b, n) ==
    [x \in Arena |-> IF x >= a /\ x < a + n THEN b ELSE mem[x]]

\* The process state the allocator works on, as a record:
\*   mem, start_addr, end_addr, free_addr, free_list_head, alloc_list_head,
\*   fatal ("none" while the process runs), frw (is the memory around the
\*   region mapped?), and notes on the call in progress: what it met that
\*   the program does not decide ("mmap": mmap() was called; "ubool": a
\*   bool that holds no value of bool was read; "overlap": memcpy was given
\*   ranges that overlap; "foreign": memory around the region was touched
\*   and was not mapped; "fused": it was touched and was mapped).
Running(m) == m.fatal = "none"

Note(m, what) == [m EXCEPT !.notes = @ \cup {what}]

Crash(m, why) == [m EXCEPT !.fatal = why]

InRegion(m, a, n) ==
    m.start_addr # 0 /\ a >= m.start_addr /\ a + n <= m.end_addr

InArena(a, n) == a >= ArenaLo /\ a + n <= ArenaHi

\* A load or a store of the n bytes at address a: of memory that is not
\* mapped, it ends the process.
Touch(m, a, n) ==
    IF ~Running(m) \/ InRegion(m, a, n) THEN m
    ELSE IF InArena(a, n)
    THEN IF m.frw THEN Note(m, "fused")
         ELSE Crash(Note(m, "foreign"), "segv")
    ELSE Crash(m, "segv")

Rd(m, a) == LoadWord(m.mem, a)

Wr(m, a, v) ==
    LET t == Touch(m, a, WORD_BYTES)
    IN  IF Running(t) THEN [t EXCEPT !.mem = StoreWord(t.mem, a, v)] ELSE t

WrByte(m, a, b) ==
    LET t == Touch(m, a, 1)
    IN  IF Running(t) THEN [t EXCEPT !.mem = StoreByte(t.mem, a, b)] ELSE t

\* The value of a bool object holding byte b; a byte other than 0 and 1 is
\* no value of bool, and what the build makes of it is bt.
AsBool(b, bt) == IF b = 0 THEN FALSE ELSE IF b = 1 THEN TRUE ELSE bt

\* m, with a note that the bool at address a was read and held no value of
\* bool (the result then depends on bt).
ReadBool(m, a) ==
    IF ByteAt(m.mem, a) \in {0, 1} THEN m ELSE Note(m, "ubool")

\* The macro ERROR of safeio.h: report and end the process.
ERROR(m, msg) == Crash(m, msg)

-----------------------------------------------------------------------------
(* The two lists *)

\* An operation is a composition of its statements: each takes the process
\* state its predecessor leaves, and a process that has ended stays as it
\* is.

ListHead(m, which) ==
    IF which = "free" THEN m.free_list_head ELSE m.alloc_list_head

SetHead(m, which, hp) ==
    IF ~Running(m) THEN m
    ELSE IF which = "free" THEN [m EXCEPT !.free_list_head = hp]
    ELSE [m EXCEPT !.alloc_list_head = hp]

\* if (hp->prev == NULL) head = hp->next; else hp->prev->next = hp->next;
UnlinkPrev(m, hp, which) ==
    IF ~Running(m) THEN m
    ELSE IF Rd(m, Wrap(hp + OFF_PREV)) = NULL
    THEN SetHead(m, which, Rd(m, Wrap(hp + OFF_NEXT)))
    ELSE Wr(m, Wrap(Rd(m, Wrap(hp + OFF_PREV)) + OFF_NEXT),
            Rd(m, Wrap(hp + OFF_NEXT)))

\* if (hp->next != NULL) hp->next->prev = hp->prev;
UnlinkNext(m, hp) ==
    IF Running(m) /\ Rd(m, Wrap(hp + OFF_NEXT)) # NULL
    THEN Wr(m, Wrap(Rd(m, Wrap(hp + OFF_NEXT)) + OFF_PREV),
            Rd(m, Wrap(hp + OFF_PREV)))
    ELSE m

\* Remove the header hp from the list `which`, through hp's own links
\* (malloc removes its best fit from the free list, free removes its block
\* from the allocated list, with the same statements).
Unlink(m, hp, which) ==
    UnlinkNext(
        UnlinkPrev(Touch(Touch(m, Wrap(hp + OFF_PREV), WORD_BYTES),
                         Wrap(hp + OFF_NEXT), WORD_BYTES),
                   hp, which),
        hp)

\* if (hp->next != NULL) hp->next->prev = hp;
LinkBack(m, hp) ==
    IF Running(m) /\ Rd(m, Wrap(hp + OFF_NEXT)) # NULL
    THEN Wr(m, Wrap(Rd(m, Wrap(hp + OFF_NEXT)) + OFF_PREV), hp)
    ELSE m

\* Put the header hp at the head of the list `which`:
\* hp->next = head; head = hp; hp->prev = NULL; and the link back.
Push(m, hp, which) ==
    LinkBack(
        Wr(SetHead(Wr(m, Wrap(hp + OFF_NEXT), ListHead(m, which)), which, hp),
           Wrap(hp + OFF_PREV), NULL),
        hp)

\* The result of a call that ends in the state m and returns p, if the
\* process still runs.
Result(m, p) == [m |-> m, ret |-> IF Running(m) THEN p ELSE NULL]

-----------------------------------------------------------------------------
(* init *)

\* mmap() gives the region at HeapBase, or fails (e.mmap_ok = FALSE).
init(m, e) ==
    IF m.start_addr = 0
    THEN IF ~e.mmap_ok
         THEN ERROR(Note(m, "mmap"), "Could not mmap() heap region")
         ELSE [Note(m, "mmap") EXCEPT !.start_addr = HeapBase,
                                      !.end_addr = Wrap(HeapBase + HEAP_SIZE),
                                      !.free_addr = HeapBase]
    ELSE m

-----------------------------------------------------------------------------
(* malloc *)

\* The test with <= for <: among blocks of one size the last one wins.
FitsLast(size, cursize, best, bestsize) ==
    \/ best = NULL /\ size <= cursize
    \/ best # NULL /\ size <= cursize /\ cursize <= bestsize

\* The test of the search loop that makes current the best fit.
Fits(size, cursize, best, bestsize) ==
    \/ best = NULL /\ size <= cursize
    \/ best # NULL /\ size <= cursize /\ cursize < bestsize

\* The best fit after the loop has looked at current.
NewBest(m, size, current, best) ==
    IF Fits(size, Rd(m, Wrap(current + OFF_SIZE)), best,
            IF best = NULL THEN 0 ELSE Rd(m, Wrap(best + OFF_SIZE)))
    THEN current ELSE best

\* The loop over the free list, from `current` on, with `best` so far.
\* `seen` are the headers the loop has visited: memory does not change
\* during the loop, so a header visited twice is visited forever.
RECURSIVE Search(_, _, _, _, _, _)

\* if (best != NULL && best->size == size) break; current = current->next;
SearchOn(m, size, bt, current, best, seen) ==
    IF ~Running(m) THEN [m |-> m, best |-> best]
    ELSE IF best # NULL /\ Rd(m, Wrap(best + OFF_SIZE)) = size
    THEN [m |-> m, best |-> best]
    ELSE IF ~Running(Touch(m, Wrap(current + OFF_NEXT), WORD_BYTES))
    THEN [m |-> Touch(m, Wrap(current + OFF_NEXT), WORD_BYTES), best |-> best]
    ELSE Search(m, size, bt, Rd(m, Wrap(current + OFF_NEXT)), best,
                seen \cup {current})

\* if (current->allocated) ERROR(...); and the choice of the best fit
SearchAt(m, size, bt, current, best, seen) ==
    IF ~Running(m) THEN [m |-> m, best |-> best]
    ELSE IF AsBool(ByteAt(m.mem, Wrap(current + OFF_ALLOCATED)), bt)
    THEN [m |-> ERROR(m, "Allocated block on free list"), best |-> best]
    ELSE SearchOn(Touch(m, Wrap(current + OFF_SIZE), WORD_BYTES), size, bt,
                  current,
                  NewBest(m, size, current, best),
                  seen)

Search(m, size, bt, current, best, seen) ==
    IF current = NULL THEN [m |-> m, best |-> best]
    ELSE IF current \in seen THEN [m |-> Crash(m, "hang"), best |-> best]
    ELSE SearchAt(ReadBool(Touch(m, Wrap(current + OFF_ALLOCATED), 1),
                           Wrap(current + OFF_ALLOCATED)),
                  size, bt, current, best, seen)

\* A best fit was found: move it from the free list to the allocated list.
MallocHit(m, best) ==
    Result(WrByte(Push(Unlink(m, best, "free"), best, "alloc"),
                  Wrap(best + OFF_ALLOCATED), 1),
           HEADER_TO_BLOCK(best))

\* The padding that makes the payload after a header at free_addr aligned.
Padding(free_addr) ==
    IF Wrap(HEADER_SIZE + free_addr) % ALIGN # 0
    THEN ALIGN - (Wrap(HEADER_SIZE + free_addr) % ALIGN)
    ELSE 0

\* The end of the new block, compared with the end of the heap as
\* intptr_t values.
BeyondHeap(new_free_addr, end_addr) == Signed(new_free_addr) > Signed(end_addr)

\* The header at header_ptr is written and put on the allocated list.
BumpHeader(m, header_ptr, size) ==
    LinkBack(
        WrByte(
            Wr(Wr(SetHead(Wr(m, Wrap(header_ptr + OFF_NEXT), m.alloc_list_head),
                          "alloc", header_ptr),
                  Wrap(header_ptr + OFF_PREV), NULL),
               Wrap(header_ptr + OFF_SIZE), size),
            Wrap(header_ptr + OFF_ALLOCATED), 1),
        header_ptr)

\* The test of the new block against the end of the heap; m.free_addr is
\* the address of the new header.
BumpEnd(m, size) ==
    IF ~Running(m) THEN Result(m, NULL)
    ELSE IF BeyondHeap(Wrap(HEADER_TO_BLOCK(m.free_addr) + size), m.end_addr)
    THEN Result(m, NULL)
    ELSE Result([m EXCEPT !.free_addr = Wrap(HEADER_TO_BLOCK(m.free_addr) + size)],
                HEADER_TO_BLOCK(m.free_addr))

\* The new block at the padded free_addr.
BumpAt(m, size) == BumpEnd(BumpHeader(m, m.free_addr, size), size)

\* No best fit: a new block at free_addr.
MallocBump(m, size) ==
    BumpAt([m EXCEPT !.free_addr = Wrap(m.free_addr + Padding(m.free_addr))],
           size)

\* After the loop: s is its state and its best fit.
MallocFound(s, size) ==
    IF ~Running(s.m) THEN Result(s.m, NULL)
    ELSE IF s.best # NULL THEN MallocHit(s.m, s.best)
    ELSE MallocBump(s.m, size)

\* malloc without its test of size == 0.
MallocSizedAny(m, size, e) ==
    IF ~Running(m) THEN Result(m, NULL)
    ELSE MallocFound(Search(m, size, e.bt, m.free_list_head, NULL, {}), size)

\* After init().
MallocSized(m, size, e) ==
    IF ~Running(m) THEN Result(m, NULL)
    ELSE IF size = 0 THEN Result(m, NULL)
    ELSE MallocFound(Search(m, size, e.bt, m.free_list_head, NULL, {}), size)

\* malloc(size): the process state after the call, and the result.
malloc(m, size, e) == MallocSized(init(m, e), size, e)

-----------------------------------------------------------------------------
(* free *)

\* free without its test of the allocated flag.
FreeHeaderUnchecked(m, header_ptr, e) ==
    IF ~Running(m) THEN m
    ELSE WrByte(Push(Unlink(m, header_ptr, "alloc"), header_ptr, "free"),
                Wrap(header_ptr + OFF_ALLOCATED), 0)

\* if (!header_ptr->allocated) ERROR(...); and the move to the free list
FreeHeader(m, header_ptr, e) ==
    IF ~Running(m) THEN m
    ELSE IF ~AsBool(ByteAt(m.mem, Wrap(header_ptr + OFF_ALLOCATED)), e.bt)
    THEN ERROR(m, "Double-free")
    ELSE WrByte(Push(Unlink(m, header_ptr, "alloc"), header_ptr, "free"),
                Wrap(header_ptr + OFF_ALLOCATED), 0)

free(m, ptr, e) ==
    IF ptr = NULL THEN m
    ELSE FreeHeader(ReadBool(Touch(m, Wrap(BLOCK_TO_HEADER(ptr) + OFF_ALLOCATED), 1),
                             Wrap(BLOCK_TO_HEADER(ptr) + OFF_ALLOCATED)),
                    BLOCK_TO_HEADER(ptr), e)

-----------------------------------------------------------------------------
(* calloc *)

\* memset(a, b, n) by a running process.
MemsetDo(m, a, b, n) ==
    IF Running(m) THEN [m EXCEPT !.mem = FillBytes(m.mem, a, b, n)] ELSE m

Memset(m, a, b, n) ==
    IF n = 0 THEN m ELSE MemsetDo(Touch(m, a, n), a, b, n)

\* calloc without its memset.
CallocKeep(r, block_size) == r

\* if (new_block_ptr != NULL) memset(new_block_ptr, 0, block_size);
CallocClear(r, block_size) ==
    IF r.ret # NULL
    THEN Result(Memset(r.m, r.ret, 0, block_size), r.ret)
    ELSE r

calloc(m, nmemb, size, e) ==
    CallocClear(malloc(m, Wrap(nmemb * size), e), Wrap(nmemb * size))

-----------------------------------------------------------------------------
(* realloc *)

\* What memcpy(dst, src, n) leaves in memory.  The ranges may overlap only
\* when the heap is already damaged; memcpy is then undefined, and cp is
\* what the library does: copy as memmove does ("move"), byte by byte
\* upwards ("fwd") or byte by byte downwards ("bwd").
CopyModes == {"move", "fwd", "bwd"}

CopySource(dst, src, n, i, cp) ==
    IF cp = "fwd" /\ dst > src /\ dst - src < n
    THEN src + (i % (dst - src))
    ELSE IF cp = "bwd" /\ dst < src /\ src - dst < n
    THEN src + i + (src - dst) * ((n - 1 - i) \div (src - dst))
    ELSE src + i

CopyBytes(mem, dst, src, n, cp) ==
    [x \in Arena |->
        IF x >= dst /\ x < dst + n
        THEN ByteAt(mem, CopySource(dst, src, n, x - dst, cp))
        ELSE mem[x]]

MemcpyDo(m, dst, src, n, cp) ==
    IF ~Running(m) THEN m
    ELSE [(IF dst < src + n /\ src < dst + n /\ dst # src
           THEN Note(m, "overlap") ELSE m)
            EXCEPT !.mem = CopyBytes(m.mem, dst, src, n, cp)]

Memcpy(m, dst, src, n, cp) ==
    IF n = 0 THEN m
    ELSE MemcpyDo(Touch(Touch(m, src, n), dst, n), dst, src, n, cp)

\* if (new_block_ptr != NULL) { memcpy(...); free(ptr); } return new_block_ptr;
ReallocMove(r, ptr, e) ==
    IF r.ret # NULL
    THEN Result(free(Memcpy(r.m, r.ret, ptr,
                            Rd(r.m, Wrap(BLOCK_TO_HEADER(ptr) + OFF_SIZE)),
                            e.cp),
                     ptr, e),
                r.ret)
    ELSE r

\* realloc that keeps the block for a size below the block's only.
ReallocSizedStrict(m, ptr, size, e) ==
    IF ~Running(m) THEN Result(m, NULL)
    ELSE IF size < Rd(m, Wrap(BLOCK_TO_HEADER(ptr) + OFF_SIZE))
    THEN Result(m, ptr)
    ELSE ReallocMove(malloc(m, size, e), ptr, e)

\* realloc that stores the smaller size in the header of the block it keeps.
ReallocSizedShrink(m, ptr, size, e) ==
    IF ~Running(m) THEN Result(m, NULL)
    ELSE IF size <= Rd(m, Wrap(BLOCK_TO_HEADER(ptr) + OFF_SIZE))
    THEN Result(Wr(m, Wrap(BLOCK_TO_HEADER(ptr) + OFF_SIZE), size), ptr)
    ELSE ReallocMove(malloc(m, size, e), ptr, e)

\* if (size <= header_ptr->size) return ptr; and the larger block
ReallocSized(m, ptr, size, e) ==
    IF ~Running(m) THEN Result(m, NULL)
    ELSE IF size <= Rd(m, Wrap(BLOCK_TO_HEADER(ptr) + OFF_SIZE))
    THEN Result(m, ptr)
    ELSE ReallocMove(malloc(m, size, e), ptr, e)

realloc(m, ptr, size, e) ==
    IF ptr = NULL THEN malloc(m, size, e)
    ELSE IF size = 0 THEN Result(free(m, ptr, e), NULL)
    ELSE ReallocSized(Touch(m, Wrap(BLOCK_TO_HEADER(ptr) + OFF_SIZE), WORD_BYTES),
                      ptr, size, e)

-----------------------------------------------------------------------------
(* The process and its client *)

VARIABLES
    mem,              \* the bytes of the arena
    start_addr,       \* the globals of bf-alloc.c
    end_addr,
    free_addr,
    free_list_head,
    alloc_list_head,
    fatal,            \* "none", or why the process ended
    foreign_rw,       \* the memory around the region was used, and is mapped
    live,             \* the client's blocks: address |-> bytes asked for
    stale,            \* addresses the client has freed and not got again
    misuse,           \* has the client freed an address that was not live?
    call,             \* the last call: operation, arguments and result
    ncalls,           \* the number of calls so far
    free_before       \* the free list as it was before the last call

vars == <<mem, start_addr, end_addr, free_addr, free_list_head,
          alloc_list_head, fatal, foreign_rw, live, stale, misuse, call,
          ncalls, free_before>>

\* The calls of one run of a client that uses every operation.
MaxCalls == 5

\* The calls of one run of a client that uses malloc and free only.
MaxDeep == 7

\* What the environment decides in a call: whether mmap() succeeds, whether
\* the memory around the region is mapped (once it was used, it is), how a
\* bool that holds no value of bool reads, and how memcpy copies between
\* overlapping ranges.
EnvsFor(notes) ==
    [mmap_ok : IF "mmap" \in notes THEN BOOLEAN ELSE {TRUE},
     frw : IF "foreign" \in notes THEN {foreign_rw, TRUE} ELSE {foreign_rw},
     bt : IF "ubool" \in notes THEN BOOLEAN ELSE {FALSE},
     cp : IF "overlap" \in notes THEN CopyModes ELSE {"move"}]

\* The process state as the record the operations work on.
M(e) == [mem |-> mem, start_addr |-> start_addr, end_addr |-> end_addr,
         free_addr |-> free_addr, free_list_head |-> free_list_head,
         alloc_list_head |-> alloc_list_head, fatal |-> fatal,
         frw |-> e.frw, notes |-> {}]

\* The next field of the header at h.
NextOf(h) == LoadWord(mem, Wrap(h + OFF_NEXT))

\* The headers of the free list in the order of the walk from hp along
\* the next links; the walk ends at NULL, at a header it has visited, or
\* where no header can be.
RECURSIVE Walk(_, _)
Walk(hp, seq) ==
    IF hp = NULL \/ ~InArena(hp, HEADER_SIZE)
          \/ \E i \in 1 .. Len(seq) : seq[i] = hp
    THEN seq
    ELSE CHOOSE w \in {Walk(n, Append(seq, hp)) : n \in {NextOf(hp)}} : TRUE

FreeSeq == Walk(free_list_head, <<>>)

Install(m) ==
    /\ mem' = m.mem
    /\ start_addr' = m.start_addr
    /\ end_addr' = m.end_addr
    /\ free_addr' = m.free_addr
    /\ free_list_head' = m.free_list_head
    /\ alloc_list_head' = m.alloc_list_head
    /\ fatal' = m.fatal
    /\ foreign_rw' = (foreign_rw \/ "fused" \in m.notes)
    /\ ncalls' = ncalls + 1
    /\ free_before' = FreeSeq

\* The bytes the client stores.
DataBytes == {1}

\* The client writes the first bytes of its block, up to this many.
FillLen(n) == IF n <= ALIGN THEN n ELSE ALIGN

\* Request sizes: nothing, small blocks, a block that fits the empty heap
\* only, and a size near the top of size_t.
ReqSizes == {0, 1, 8, 104, WordMod - 96}

\* The request sizes that are no more than HEAP_SIZE.
FitSizes == {n \in ReqSizes : n <= HEAP_SIZE}

\* calloc's arguments; the product of the last pair exceeds size_t.
CallocArgs == {<<1, 8>>, <<WordMod \div 8 + 1, 8>>}

\* realloc's sizes for a live block: free it, keep or grow it, and a size
\* the heap has no room for.
ReallocSizes == {0, 8, 104}

Call(op, ptr, nmemb, size, ret) ==
    [op |-> op, ptr |-> ptr, nmemb |-> nmemb, size |-> size, ret |-> ret]

\* The call c made in the current state, under the decisions e of the
\* environment: the process state it leaves and its result.
Do(c, e) ==
    CASE c.op = "malloc" -> malloc(M(e), c.size, e)
      [] c.op = "calloc" -> calloc(M(e), c.nmemb, c.size, e)
      [] c.op = "free" -> Result(free(M(e), c.ptr, e), NULL)
      [] c.op = "realloc" -> realloc(M(e), c.ptr, c.size, e)
      [] c.op = "fill" -> Result(Memset(M(e), c.ptr, c.size,
                                        FillLen(live[c.ptr])), NULL)

\* What the calls in rs met that the program does not decide.
Met(rs) == UNION {r.m.notes : r \in rs} \ {"fused"}

\* The outcomes of the call c: one for each decision of the environment
\* on what the call meets.  A call that meets nothing the program does not
\* decide has one outcome.
RECURSIVE Outcomes(_, _)

Settle(c, notes, rs) ==
    IF Met(rs) \subseteq notes THEN rs ELSE Outcomes(c, notes \cup Met(rs))

Outcomes(c, notes) == Settle(c, notes, {Do(c, e) : e \in EnvsFor(notes)})

\* The client's view after a call that returned the block q of n bytes
\* and released the block p (NULL: none).
Got(q, n, p) ==
    LET dom == (DOMAIN live \cup (IF q = NULL THEN {} ELSE {q}))
                  \ (IF p = NULL \/ p = q THEN {} ELSE {p})
    IN  /\ live' = [x \in dom |-> IF x = q THEN n ELSE live[x]]
        /\ stale' = (stale \cup (IF p = NULL \/ p = q THEN {} ELSE {p}))
                        \ (IF q = NULL THEN {} ELSE {q})

CanCall == fatal = "none" /\ ncalls < MaxCalls

CanCallDeep == fatal = "none" /\ ncalls < MaxDeep

Init ==
    /\ mem = [x \in Arena |-> 0]
    /\ start_addr = 0
    /\ end_addr = 0
    /\ free_addr = 0
    /\ free_list_head = NULL
    /\ alloc_list_head = NULL
    /\ fatal = "none"
    /\ foreign_rw = FALSE
    /\ live = [x \in {} |-> 0]
    /\ stale = {}
    /\ misuse = FALSE
    /\ call = Call("none", NULL, 0, 0, NULL)
    /\ ncalls = 0
    /\ free_before = <<>>

MallocCall(n) ==
    /\ \E r \in Outcomes(Call("malloc", NULL, 0, n, NULL), {}) :
         /\ Install(r.m)
         /\ call' = Call("malloc", NULL, 0, n, r.ret)
         /\ Got(r.ret, n, NULL)
    /\ UNCHANGED misuse

Malloc(n) == CanCall /\ MallocCall(n)

Calloc(nmemb, size) ==
    /\ CanCall
    /\ \E r \in Outcomes(Call("calloc", NULL, nmemb, size, NULL), {}) :
         /\ Install(r.m)
         /\ call' = Call("calloc", NULL, nmemb, size, r.ret)
         /\ Got(r.ret, Wrap(nmemb * size), NULL)
    /\ UNCHANGED misuse

\* free(ptr) of NULL or of a live block
FreeCall(ptr) ==
    /\ \E r \in Outcomes(Call("free", ptr, 0, 0, NULL), {}) :
         /\ Install(r.m)
         /\ call' = Call("free", ptr, 0, 0, NULL)
         /\ IF Running(r.m) THEN Got(NULL, 0, ptr)
            ELSE UNCHANGED <<live, stale>>
    /\ UNCHANGED misuse

Free(ptr) == CanCall /\ FreeCall(ptr)

\* free(ptr) of a block the client has freed already
FreeStale(ptr) ==
    /\ CanCall
    /\ \E r \in Outcomes(Call("free", ptr, 0, 0, NULL), {}) :
         /\ Install(r.m)
         /\ call' = Call("free", ptr, 0, 0, NULL)
    /\ misuse' = TRUE
    /\ UNCHANGED <<live, stale>>

\* realloc(ptr, n) of NULL or of a live block
Realloc(ptr, n) ==
    /\ CanCall
    /\ \E r \in Outcomes(Call("realloc", ptr, 0, n, NULL), {}) :
         /\ Install(r.m)
         /\ call' = Call("realloc", ptr, 0, n, r.ret)
         /\ IF ~Running(r.m) THEN UNCHANGED <<live, stale>>
            ELSE IF r.ret # NULL THEN Got(r.ret, n, ptr)
            ELSE IF n = 0 THEN Got(NULL, 0, ptr)
            ELSE UNCHANGED <<live, stale>>
    /\ UNCHANGED misuse

\* The client stores the byte v in the first bytes of its block ptr.
Fill(ptr, v) ==
    /\ CanCall
    /\ \E r \in Outcomes(Call("fill", ptr, 0, v, NULL), {}) :
         Install(r.m)
    /\ call' = Call("fill", ptr, 0, v, NULL)
    /\ UNCHANGED <<live, stale, misuse>>

Next ==
    \/ \E n \in ReqSizes : Malloc(n)
    \/ \E a \in CallocArgs : Calloc(a[1], a[2])
    \/ \E p \in {NULL} \cup DOMAIN live : Free(p)
    \/ \E n \in ReqSizes \ {0} : Realloc(NULL, n)
    \/ \E p \in DOMAIN live, n \in ReallocSizes : Realloc(p, n)
    \/ \E p \in DOMAIN live, v \in DataBytes : Fill(p, v)

\* The client keeps to the contract: free and realloc get NULL or a live
\* block.
Spec == Init /\ [][Next]_vars

\* A client that uses malloc and free only, in longer runs.
NextDeep ==
    \/ \E n \in ReqSizes : CanCallDeep /\ MallocCall(n)
    \/ \E p \in {NULL} \cup DOMAIN live : CanCallDeep /\ FreeCall(p)

SpecDeep == Init /\ [][NextDeep]_vars

\* The same client, asking for no more than the region holds.
NextFit ==
    \/ \E n \in FitSizes : CanCallDeep /\ MallocCall(n)
    \/ \E p \in {NULL} \cup DOMAIN live : CanCallDeep /\ FreeCall(p)

SpecFit == Init /\ [][NextFit]_vars

\* The client may also free a block twice.
NextAny == Next \/ \E p \in stale : FreeStale(p)

SpecAny == Init /\ [][NextAny]_vars

-----------------------------------------------------------------------------
(* What the client can observe of the heap *)

\* The header of the block whose payload is at p, field by field.
SizeOf(p) == LoadWord(mem, Wrap(BLOCK_TO_HEADER(p) + OFF_SIZE))

FlagOf(p) == ByteAt(mem, Wrap(BLOCK_TO_HEADER(p) + OFF_ALLOCATED))

\* The headers a walk along the next links from hp visits; the walk ends
\* at NULL, at a header it has visited, or where no header can be.
RECURSIVE Chain(_, _)
Chain(hp, seen) ==
    IF hp = NULL \/ hp \in seen \/ ~InArena(hp, HEADER_SIZE) THEN seen
    ELSE Chain(LoadWord(mem, Wrap(hp + OFF_NEXT)), seen \cup {hp})

FreeList == Chain(free_list_head, {})

AllocList == Chain(alloc_list_head, {})

\* Do the n bytes at a and the k bytes at b share a byte?
Overlap(a, n, b, k) == a < b + k /\ b < a + n

\* The process runs, and no call has touched memory outside the region:
\* nothing so far depended on what lies around the region.
Clean == fatal = "none" /\ ~foreign_rw

\* The step is a call of op by the client.
IsCall(op) == ncalls' # ncalls /\ call'.op = op

-----------------------------------------------------------------------------
(* The claims *)

\* C1 (disjointness): the payloads of two distinct live blocks share no
\* byte, and no live payload shares a byte with the header of another live
\* block.
C1_Disjoint ==
    Clean =>
        \A p \in DOMAIN live : \A q \in DOMAIN live \ {p} :
            /\ ~Overlap(p, SizeOf(p), q, SizeOf(q))
            /\ ~Overlap(p, SizeOf(p), BLOCK_TO_HEADER(q), HEADER_SIZE)

\* C2 (containment): the payload of every live block lies within
\* [start_addr, end_addr).
C2_Contained ==
    Clean =>
        \A p \in DOMAIN live :
            p >= start_addr /\ p + SizeOf(p) <= end_addr

\* C3 (alignment): every non-null address malloc or calloc returns is a
\* multiple of 16.
C3_Aligned ==
    (Clean /\ call.op \in {"malloc", "calloc"} /\ call.ret # NULL)
        => call.ret % ALIGN = 0

\* Where malloc puts the header of a new block.
BumpAddr ==
    IF start_addr = 0 THEN Wrap(HeapBase + Padding(HeapBase))
    ELSE Wrap(free_addr + Padding(free_addr))

\* The free blocks malloc(n) can use.
FitsOf(n) == {h \in FreeList : LoadWord(mem, Wrap(h + OFF_SIZE)) >= n}

\* C4 (best fit): malloc(n), n > 0, with a free block of size >= n returns
\* a free block of the least such size and leaves every other free block
\* on the free list; with no such block it makes a new block at free_addr.
C4_Step ==
    (IsCall("malloc") /\ call'.size > 0 /\ Clean /\ ~foreign_rw'
        /\ fatal' \notin {"segv", "Could not mmap() heap region"})
    => \A q \in {call'.ret} :
         IF FitsOf(call'.size) # {}
         THEN /\ fatal' = "none"
              /\ q # NULL
              /\ BLOCK_TO_HEADER(q) \in FitsOf(call'.size)
              /\ \A h \in FitsOf(call'.size) : SizeOf(q) <= SizeOf(HEADER_TO_BLOCK(h))
              /\ (FreeList \ {BLOCK_TO_HEADER(q)}) \subseteq FreeList'
              /\ free_addr' = free_addr
         ELSE /\ fatal' = "none"
              /\ q # NULL =>
                    BLOCK_TO_HEADER(q) = BumpAddr

C4_BestFit == [][C4_Step]_vars

\* C5 (double free): free of a block whose header is on the free list with
\* the allocated flag false ends in the fatal error "Double-free", and
\* changes no list head and no byte of a header before.
C5_Step ==
    (IsCall("free") /\ fatal = "none" /\ call'.ptr # NULL
        /\ BLOCK_TO_HEADER(call'.ptr) \in FreeList /\ FlagOf(call'.ptr) = 0)
    => /\ fatal' = "Double-free"
       /\ UNCHANGED <<mem, free_list_head, alloc_list_head, free_addr>>

C5_DoubleFree == [][C5_Step]_vars

\* A block was freed twice, and the second free ended the process.
C5_Witness ==
    /\ fatal = "Double-free"
    /\ call.op = "free"
    /\ call.ptr \in stale
    /\ BLOCK_TO_HEADER(call.ptr) \in FreeList

\* C6 (realloc failure): when realloc(p, k) of a live p with k above p's
\* size returns NULL, p's header is still on the allocated list with the
\* flag true, and its size and its payload are unchanged; and a free or a
\* realloc of p that follows returns.
C6_Step ==
    /\ \A p \in DOMAIN live :
        (IsCall("realloc") /\ Clean /\ ~foreign_rw' /\ fatal' = "none"
            /\ call'.ptr = p /\ call'.size > SizeOf(p) /\ call'.ret = NULL)
        => /\ (BLOCK_TO_HEADER(p) \in AllocList)'
           /\ FlagOf(p)' = 1
           /\ SizeOf(p)' = SizeOf(p)
           /\ \A i \in 0 .. (SizeOf(p) - 1) : mem'[p + i] = mem[p + i]
    /\ (/\ Clean /\ ~foreign_rw'
        /\ call.op = "realloc" /\ call.ptr \in DOMAIN live
        /\ call.size > SizeOf(call.ptr) /\ call.ret = NULL
        /\ IsCall("free") \/ IsCall("realloc")
        /\ call'.ptr = call.ptr)
       => fatal' = "none"

C6_KeepsOriginal == [][C6_Step]_vars

\* C7 (realloc grow): when realloc(p, k) of a live p with k above p's size
\* s returns q # NULL, then q # p, the first s bytes at q are those that
\* were at p, p's header is on the free list with the flag false and q's
\* header is on the allocated list.
C7_Step ==
    \A p \in DOMAIN live : \A q \in {call'.ret} :
        (IsCall("realloc") /\ Clean /\ ~foreign_rw' /\ fatal' = "none"
            /\ call'.ptr = p /\ call'.size > SizeOf(p) /\ q # NULL)
        => /\ q # p
           /\ \A i \in 0 .. (SizeOf(p) - 1) : mem'[q + i] = mem[p + i]
           /\ (BLOCK_TO_HEADER(p) \in FreeList)'
           /\ FlagOf(p)' = 0
           /\ (BLOCK_TO_HEADER(q) \in AllocList)'

C7_Grow == [][C7_Step]_vars

\* C8 as stated (realloc identity): realloc(p, k) of a live p with k at most
\* p's size returns p.
C8_Step ==
    \A p \in DOMAIN live :
        (IsCall("realloc") /\ fatal = "none" /\ call'.ptr = p
            /\ call'.size <= SizeOf(p))
        => call'.ret = p

C8_Identity == [][C8_Step]_vars

\* C8 amended: realloc(p, k) of a live p with 0 < k and k at most p's size
\* returns p, and p stays the client's block.
C8_StepPositive ==
    \A p \in DOMAIN live :
        (IsCall("realloc") /\ fatal = "none" /\ call'.ptr = p
            /\ 0 < call'.size /\ call'.size <= SizeOf(p))
        => /\ fatal' = "none"
           /\ call'.ret = p
           /\ UNCHANGED <<mem, free_list_head, alloc_list_head, free_addr>>

C8_IdentityPositive == [][C8_StepPositive]_vars

\* realloc has returned its argument for a size below the block's.
C8_Witness ==
    /\ fatal = "none"
    /\ call.op = "realloc"
    /\ call.ptr # NULL
    /\ call.ret = call.ptr
    /\ call.size > 0
    /\ call.size < SizeOf(call.ptr)

\* C9 (calloc): the first nmemb * size bytes (the product as size_t) of a
\* block calloc returns are zero.
C9_Zeroed ==
    (fatal = "none" /\ call.op = "calloc" /\ call.ret # NULL)
    => \A i \in 0 .. (Wrap(call.nmemb * call.size) - 1) :
          ByteAt(mem, call.ret + i) = 0

\* calloc has returned a block for a product beyond size_t, and the block
\* held the client's bytes before: they are still there behind the bytes
\* calloc has cleared.
C9_Witness ==
    /\ fatal = "none"
    /\ call.op = "calloc"
    /\ call.ret # NULL
    /\ call.nmemb * call.size >= WordMod
    /\ ByteAt(mem, call.ret + Wrap(call.nmemb * call.size)) \in DataBytes

\* C10 (no-ops): malloc(0) returns NULL and free(NULL) returns; once the
\* region is mapped, neither changes a list head, free_addr or a byte of
\* the heap.
C10_Step ==
    /\ (IsCall("malloc") /\ call'.size = 0 /\ fatal' = "none")
          => call'.ret = NULL
    /\ (IsCall("free") /\ call'.ptr = NULL /\ fatal = "none")
          => fatal' = "none"
    /\ (/\ fatal = "none" /\ start_addr # 0
        /\ \/ IsCall("malloc") /\ call'.size = 0
           \/ IsCall("free") /\ call'.ptr = NULL)
          => /\ fatal' = "none"
             /\ UNCHANGED <<mem, free_list_head, alloc_list_head, free_addr,
                            start_addr, end_addr>>

C10_NoOps == [][C10_Step]_vars

\* malloc(0) or free(NULL) was called with blocks on both lists.
C10_Witness ==
    /\ fatal = "none"
    /\ \/ call.op = "malloc" /\ call.size = 0
       \/ call.op = "free" /\ call.ptr = NULL
    /\ free_list_head # NULL
    /\ alloc_list_head # NULL

-----------------------------------------------------------------------------
(* The lists as the claims speak of them *)

\* The header fields of the header at h (NextOf is defined above).
PrevOf(h) == LoadWord(mem, Wrap(h + OFF_PREV))

SizeAt(h) == LoadWord(mem, Wrap(h + OFF_SIZE))

FlagAt(h) == ByteAt(mem, Wrap(h + OFF_ALLOCATED))

\* The headers of the blocks malloc has returned to the client, and those
\* on the two lists: the headers the code has written.
Written ==
    {BLOCK_TO_HEADER(p) : p \in DOMAIN live \cup stale}
        \cup AllocList \cup FreeList

\* Does the walk along the next links from hp come back to a header it has
\* visited?
RECURSIVE Cyclic(_, _)
Cyclic(hp, seen) ==
    IF hp = NULL \/ ~InArena(hp, HEADER_SIZE) THEN FALSE
    ELSE IF hp \in seen THEN TRUE
    ELSE Cyclic(NextOf(hp), seen \cup {hp})

\* C11 (list partition): every header written is reachable from exactly
\* one of the two list heads, and its allocated flag is true iff it is
\* reachable from alloc_list_head.
C11_Partition ==
    Clean =>
        \A h \in Written :
            /\ (h \in AllocList) # (h \in FreeList)
            /\ (FlagAt(h) = 1) <=> (h \in AllocList)

\* C12 (symmetric links): for every header h on either list, h.next # NULL
\* implies h.next.prev = h, h.prev # NULL implies h.prev.next = h, and the
\* header at each list head has prev = NULL.
C12_Symmetric ==
    Clean =>
        /\ \A h \in AllocList \cup FreeList :
              /\ NextOf(h) # NULL => PrevOf(NextOf(h)) = h
              /\ PrevOf(h) # NULL => NextOf(PrevOf(h)) = h
        /\ alloc_list_head # NULL => PrevOf(alloc_list_head) = NULL
        /\ free_list_head # NULL => PrevOf(free_list_head) = NULL

\* C13 (bump exhaustion): a malloc(n) that finds no free block and whose
\* new block would end beyond end_addr returns NULL and leaves
\* alloc_list_head, the allocated list and the links of every header as
\* they were.
C13_Step ==
    (/\ IsCall("malloc") /\ call'.size > 0 /\ Clean /\ start_addr # 0
     /\ FitsOf(call'.size) = {}
     /\ BeyondHeap(Wrap(HEADER_TO_BLOCK(BumpAddr) + call'.size), end_addr))
    => /\ fatal' = "none"
       /\ call'.ret = NULL
       /\ alloc_list_head' = alloc_list_head
       /\ AllocList' = AllocList
       /\ \A h \in Written : NextOf(h)' = NextOf(h) /\ PrevOf(h)' = PrevOf(h)

C13_NoLink == [][C13_Step]_vars

\* C14 (monotonic bump): once the region is mapped, no call makes
\* free_addr smaller.
C14_Step == (Clean /\ start_addr # 0 /\ fatal' = "none") => free_addr' >= free_addr

C14_Monotonic == [][C14_Step]_vars

\* C15 (size fixed): no call changes the size field of a header written
\* before it; a new block never gets a header where there is one.
C15_Step ==
    (Clean /\ ~foreign_rw' /\ fatal' = "none")
    => \A h \in Written : SizeAt(h)' = SizeAt(h)

C15_SizeFixed == [][C15_Step]_vars

\* How far the search for n bytes walks: to the first block of exactly n
\* bytes, or to the end of the list.
Reach(n) ==
    IF \E i \in 1 .. Len(FreeSeq) : SizeAt(FreeSeq[i]) = n
    THEN CHOOSE i \in 1 .. Len(FreeSeq) :
            /\ SizeAt(FreeSeq[i]) = n
            /\ \A j \in 1 .. (i - 1) : SizeAt(FreeSeq[j]) # n
    ELSE Len(FreeSeq)

\* The places, among those the search walks, of the blocks of the least
\* size that is at least n.
Least(n) ==
    {i \in 1 .. Reach(n) :
        /\ SizeAt(FreeSeq[i]) >= n
        /\ \A j \in 1 .. Reach(n) :
              SizeAt(FreeSeq[j]) >= n => SizeAt(FreeSeq[i]) <= SizeAt(FreeSeq[j])}

\* C16 (tie-breaking and early exit): malloc(n) returns, of the free blocks
\* of the least size that is at least n, the one nearest the head of the
\* free list; the search stops at the first block of exactly n bytes and
\* returns the best block up to and including it.
C16_Step ==
    (IsCall("malloc") /\ call'.size > 0 /\ fatal = "none" /\ fatal' = "none"
        /\ Least(call'.size) # {})
    => \E i \in Least(call'.size) :
          /\ \A j \in Least(call'.size) : i <= j
          /\ call'.ret = HEADER_TO_BLOCK(FreeSeq[i])

C16_TieBreak == [][C16_Step]_vars

\* malloc has returned a free block larger than asked for, and a block of
\* the same size is still on the free list.
C16_Witness ==
    /\ fatal = "none"
    /\ call.op = "malloc"
    /\ call.ret # NULL
    /\ call.size < SizeOf(call.ret)
    /\ \E h \in FreeList : SizeAt(h) = SizeOf(call.ret)

\* C17 (shrink frame): realloc(p, k) of a live p with 0 < k and k at most
\* p's size makes no new block and changes no list head, not free_addr, no
\* header field (p's size stays) and no byte of memory, p's payload
\* included; the two lists, which are walks from the heads through memory,
\* are then as they were.
C17_Step ==
    \A p \in DOMAIN live :
        (IsCall("realloc") /\ fatal = "none" /\ call'.ptr = p
            /\ 0 < call'.size /\ call'.size <= SizeOf(p))
        => /\ fatal' = "none"
           /\ DOMAIN live' = DOMAIN live
           /\ free_list_head' = free_list_head
           /\ alloc_list_head' = alloc_list_head
           /\ free_addr' = free_addr
           /\ \A h \in Written :
                 /\ NextOf(h)' = NextOf(h) /\ PrevOf(h)' = PrevOf(h)
                 /\ SizeAt(h)' = SizeAt(h) /\ FlagAt(h)' = FlagAt(h)
           /\ SizeOf(p)' = SizeOf(p)
           /\ mem' = mem

C17_ShrinkFrame == [][C17_Step]_vars

\* realloc has kept a block for a size below the block's, with blocks on
\* the free list and other blocks allocated.
C17_Witness ==
    /\ fatal = "none"
    /\ call.op = "realloc"
    /\ call.ptr # NULL
    /\ call.ret = call.ptr
    /\ 0 < call.size /\ call.size < SizeOf(call.ptr)
    /\ free_list_head # NULL
    /\ Cardinality(DOMAIN live) > 1

\* C18 (round trip): free(p) of a live p followed at once by malloc of p's
\* size returns p, leaves free_addr as it is, and leaves the free list as
\* it was before free(p).
C18_Step ==
    (/\ Clean /\ ~foreign_rw'
     /\ call.op = "free" /\ call.ptr # NULL
     /\ IsCall("malloc") /\ call'.size = SizeOf(call.ptr))
    => /\ fatal' = "none"
       /\ call'.ret = call.ptr
       /\ free_addr' = free_addr
       /\ FreeSeq' = free_before

C18_RoundTrip == [][C18_Step]_vars

\* C19 (termination): the free list and the allocated list are acyclic
\* along next, and the search loop of malloc ends: no call runs forever.
C19_Acyclic ==
    ~foreign_rw =>
        /\ fatal # "hang"
        /\ fatal = "none" =>
              /\ ~Cyclic(free_list_head, {})
              /\ ~Cyclic(alloc_list_head, {})

\* C20 (no fatal error under valid use): neither "Allocated block on free
\* list" nor "Double-free" is reached when free and realloc get NULL or
\* live blocks only.
C20_NoFatal ==
    ~foreign_rw =>
        fatal \notin {"Allocated block on free list", "Double-free"}

====
